---- MODULE Spec2Model ----
(***************************************************************************)
(* A model of the anime recommendation backend (src/backend).              *)
(*                                                                         *)
(* Python lists are sequences; a Python list position p is the sequence    *)
(* position p + 1.  A Python string is a sequence of tokens: a word, the   *)
(* comma "," or the blank " ", so that str.split(',') and str.strip() are  *)
(* computed, not assumed.  A list of dicts that aliases the catalog is a   *)
(* sequence of catalog positions (references); what a caller reads through *)
(* such a list is the records the catalog holds at that moment.            *)
(* A float that is the quotient of two small integers is the reduced       *)
(* fraction <<numerator, denominator>>; a dict key that is absent is the   *)
(* empty tuple.                                                            *)
(***************************************************************************)
EXTENDS Integers, Sequences, FiniteSets, TLC

VARIABLES
    file_data,      \* content of data/final_anime_data.json
    anime_data,     \* AnimeRecommender.anime_data (shared by all reference requests)
    app_anime_data, \* the module-level anime_data of app.py (given to AdHoc)
    last,           \* the most recent completed request and what it returned
    reviews,        \* anime_to_reviewer.json and reviewer_to_anime.json as loaded
    firstResult,    \* reference name -> what its first reference request returned
    rq,             \* the reference requests in flight, one per serving thread
    svd_object      \* an Svd object: its n_components and its term-document matrix

vars == <<file_data, anime_data, app_anime_data, reviews, last, firstResult, rq, svd_object>>

----------------------------------------------------------------------------
(* Bounds of the model.                                                    *)

\* number of catalog records
NItems == 3

\* number of serving threads whose reference requests may overlap
Threads == {1, 2}

----------------------------------------------------------------------------
(* Values.                                                                 *)

\* a dict key that is not present
Absent == <<>>

\* the quotient n / d of two naturals as Python computes it: equal quotients
\* give equal floats, so the value is the fraction in lowest terms
RECURSIVE Gcd(_, _)
Gcd(a, b) == IF b = 0 THEN a ELSE Gcd(b, a % b)

Abs(n) == IF n < 0 THEN -n ELSE n

Frac(n, d) == LET g == Gcd(Abs(n), d) IN <<n \div g, d \div g>>

FracAdd(x, y) == Frac(x[1] * y[2] + y[1] * x[2], x[2] * y[2])

FracSub(x, y) == Frac(x[1] * y[2] - y[1] * x[2], x[2] * y[2])

FracMul(x, y) == Frac(x[1] * y[1], x[2] * y[2])

FracAbs(x) == <<Abs(x[1]), x[2]>>

FracMax(x, y) == IF x[1] * y[2] >= y[1] * x[2] THEN x ELSE y

\* x >= y and x > y on such quotients
FracGE(x, y) == x[1] * y[2] >= y[1] * x[2]

FracGT(x, y) == x[1] * y[2] > y[1] * x[2]

Range(s) == {s[k] : k \in 1..Len(s)}

\* display names, in catalog order
NamePool == <<<<"Naruto">>, <<"Bleach">>, <<"Monster">>, <<"Trigun">>, <<"Gintama">>>>

NameOf(i) == NamePool[i]

\* a title no record carries
UnknownTitle == <<"Nonexistent">>

\* the Genres strings records are loaded with
GenreStrings ==
    { <<>>,
      <<"Action">>,
      <<"Action", ",", " ", "Drama">>,
      <<"Drama", ",", " ", "Action", ",", " ", "Comedy">> }

\* the Score fields a catalog is loaded with, by position: the community
\* scores rise with the position, or they fall
ScoreColumns == <<[i \in 1..NItems |-> 5 + i], [i \in 1..NItems |-> 10 - i]>>

\* the external identifier of the record at catalog position i
IdOf(i) == 100 + i

\* an Episodes field: a number (or a string that float() reads as one), a
\* string float() rejects, or no Episodes key at all
Number(n) == [present |-> TRUE, numeric |-> TRUE, n |-> n]

NotANumber == [present |-> TRUE, numeric |-> FALSE, n |-> 0]

NoEpisodes == [present |-> FALSE, numeric |-> FALSE, n |-> 0]

\* the Episodes, Studios and Rating fields by catalog position, for the
\* catalog with rising scores and for the one with falling scores
EpisodesColumn ==
    << <<Number(10), Number(5), Number(1), Number(24), NotANumber>>,
       <<NotANumber, Number(0), NoEpisodes, Number(10), Number(5)>> >>

StudiosColumn ==
    << << <<"Madhouse">>, <<"Madhouse", ",", " ", "Bones">>, <<"Bones">>, <<>>,
          <<"Madhouse">> >>,
       << <<>>, <<"Bones">>, <<"Bones", ",", "Madhouse">>, <<"Madhouse">>, <<>> >> >>

RatingColumn ==
    << << <<"PG-13">>, <<"R">>, <<"PG-13">>, <<>>, <<"R">> >>,
       << <<>>, <<"R">>, <<"G">>, <<"PG-13">>, <<>> >> >>

\* a record as the catalog file holds it: no per-request field is present
Record(i, g, c) ==
    [Name |-> NameOf(i), Genres |-> g, anime_id |-> IdOf(i), Score |-> ScoreColumns[c][i],
     Synopsis |-> <<"a", " ", "story">>,
     Episodes |-> EpisodesColumn[c][i], Studios |-> StudiosColumn[c][i],
     Rating |-> RatingColumn[c][i],
     similarity |-> Absent, filter_score |-> Absent, top_words |-> Absent]

\* the catalogs a file can hold: names are distinct (the lookup is a bijection)
Catalogs ==
    { [i \in 1..NItems |-> Record(i, g[i], c)] :
        g \in [1..NItems -> GenreStrings], c \in DOMAIN ScoreColumns }

\* data/anime_to_index.json: display name -> list position, for the names of `data`
AnimeToIndex(data) == [n \in {data[i].Name : i \in 1..Len(data)} |->
                        CHOOSE i \in 1..Len(data) : data[i].Name = n]

----------------------------------------------------------------------------
(* str.split(',') and str.strip() on token strings.                        *)

RECURSIVE SplitFrom(_, _, _, _)
SplitFrom(s, k, cur, acc) ==
    IF k > Len(s) THEN Append(acc, cur)
    ELSE IF s[k] = "," THEN SplitFrom(s, k + 1, <<>>, Append(acc, cur))
    ELSE SplitFrom(s, k + 1, Append(cur, s[k]), acc)

\* s.split(','): never the empty list; ''.split(',') is ['']
Split(s) == SplitFrom(s, 1, <<>>, <<>>)

RECURSIVE LStrip(_)
LStrip(s) == IF s # <<>> /\ Head(s) = " " THEN LStrip(Tail(s)) ELSE s

RECURSIVE RStrip(_)
RStrip(s) == IF s # <<>> /\ s[Len(s)] = " " THEN RStrip(SubSeq(s, 1, Len(s) - 1)) ELSE s

Strip(s) == RStrip(LStrip(s))

\* set(genre.strip() for genre in genres.split(','))
GenreSet(genres) == {Strip(p) : p \in Range(Split(genres))}

----------------------------------------------------------------------------
(* processing/genre_jaccard_sim.py                                         *)

\* the default of the threshold parameter, in hundredths
ThresholdPercent == 45

\* the threshold the docstring of get_similar_anime announces (0.2)
Threshold_Docstring == Frac(20, 100)

Threshold == Frac(ThresholdPercent, 100)

\* GenreJaccardSim.jaccard_similarity
jaccard_similarity(set1, set2) ==
    LET intersection == Cardinality(set1 \cap set2)
        union == Cardinality(set1 \cup set2)
    IN  IF union > 0 THEN Frac(intersection, union) ELSE Frac(0, 1)

\* the pass that takes a record already carrying a similarity as done
\* (if 'similarity' in anime: continue)
GenreLoopBody_SkipAnnotated(data, anime_title, target_anime_genres, i, similar_animes) ==
    IF data[i].Name = anime_title \/ data[i].similarity # Absent
    THEN [data |-> data, similar_animes |-> similar_animes]
    ELSE LET anime_genres == GenreSet(data[i].Genres)
             similarity == jaccard_similarity(target_anime_genres, anime_genres)
         IN  IF FracGE(similarity, Threshold)
             THEN [data |-> [data EXCEPT ![i].similarity = similarity],
                   similar_animes |-> Append(similar_animes, i)]
             ELSE [data |-> data, similar_animes |-> similar_animes]

\* one pass of the loop `for anime in self.anime_data` over position i:
\* the record is skipped, or scored and, at or above the threshold, annotated
\* in place and appended (by reference) to similar_animes
GenreLoopBody(data, anime_title, target_anime_genres, i, similar_animes) ==
    IF data[i].Name = anime_title
    THEN [data |-> data, similar_animes |-> similar_animes]
    ELSE LET anime_genres == GenreSet(data[i].Genres)
             similarity == jaccard_similarity(target_anime_genres, anime_genres)
         IN  IF FracGE(similarity, Threshold)
             THEN [data |-> [data EXCEPT ![i].similarity = similarity],
                   similar_animes |-> Append(similar_animes, i)]
             ELSE [data |-> data, similar_animes |-> similar_animes]

RECURSIVE GenreLoop(_, _, _, _, _)
GenreLoop(data, anime_title, target_anime_genres, i, similar_animes) ==
    IF i > Len(data)
    THEN [data |-> data, similar_animes |-> similar_animes]
    ELSE LET b == GenreLoopBody(data, anime_title, target_anime_genres, i, similar_animes)
         IN  GenreLoop(b.data, anime_title, target_anime_genres, i + 1, b.similar_animes)

\* the name is a key of anime_to_index
Resolvable(data, anime_title) == anime_title \in DOMAIN AnimeToIndex(data)

\* the stage that reads the lookup with a default position
\* (self.anime_to_index.get(anime_title, 0)) instead of returning []
get_similar_anime_Default(data, anime_title) ==
    LET target_idx == IF Resolvable(data, anime_title)
                      THEN AnimeToIndex(data)[anime_title] ELSE 1
        target_anime_genres == GenreSet(data[target_idx].Genres)
        l == GenreLoop(data, anime_title, target_anime_genres, 1, <<>>)
    IN  [data |-> l.data, out |-> Append(l.similar_animes, target_idx)]

\* GenreJaccardSim.get_similar_anime: the catalog after the call and the list
\* returned (references; the target record is its last element)
get_similar_anime(data, anime_title) ==
    IF ~Resolvable(data, anime_title)
    THEN [data |-> data, out |-> <<>>]
    ELSE LET target_idx == AnimeToIndex(data)[anime_title]
             target_anime_genres == GenreSet(data[target_idx].Genres)
             l == GenreLoop(data, anime_title, target_anime_genres, 1, <<>>)
         IN  [data |-> l.data, out |-> Append(l.similar_animes, target_idx)]

\* the records a list of references shows when it is read
Deref(data, refs) == [k \in 1..Len(refs) |-> data[refs[k]]]

----------------------------------------------------------------------------
(* Python calls.  A call returns a value or raises; a call whose positional *)
(* arguments do not fit the signature raises TypeError before the body runs.*)

Return(v) == [raised |-> FALSE, value |-> v]

Raise(e) == [raised |-> TRUE, value |-> e]

\* sorted(refs, key=..., reverse=True) given each element's key: the sort is
\* stable, so elements with equal keys keep their order
RECURSIVE InsertDesc(_, _)
InsertDesc(sorted, p) ==
    IF sorted = <<>> THEN <<p>>
    ELSE IF FracGT(p[2], Head(sorted)[2]) THEN <<p>> \o sorted
    ELSE <<Head(sorted)>> \o InsertDesc(Tail(sorted), p)

RECURSIVE SortPairsDesc(_, _)
SortPairsDesc(pairs, acc) ==
    IF pairs = <<>> THEN acc
    ELSE SortPairsDesc(Tail(pairs), InsertDesc(acc, Head(pairs)))

SortedDesc(refs, keys) ==
    LET pairs == [k \in 1..Len(refs) |-> <<refs[k], keys[k]>>]
        done == SortPairsDesc(pairs, <<>>)
    IN  [k \in 1..Len(refs) |-> done[k][1]]

----------------------------------------------------------------------------
(* processing/tfidf.py and processing/svd.py                                *)

\* TFIDF.__init__(self, anime_data)
TFIDF_init(args) ==
    IF Len(args) # 1 THEN Raise("TypeError")
    ELSE Return([anime_data |-> args[1]])

\* Svd.__init__(self, anime_data, target_anime_data, n_components=100): the
\* body builds TFIDF(anime_data, target_anime_data) and re-raises what it raises
Svd_init(args) ==
    IF Len(args) \notin {2, 3} THEN Raise("TypeError")
    ELSE LET tfidf == TFIDF_init(<<args[1], args[2]>>)
         IN  IF tfidf.raised THEN Raise(tfidf.value)
             ELSE Return([anime_data |-> args[1], target_anime |-> args[2],
                          tfidf |-> tfidf.value])

\* the n_components default of Svd.__init__
SvdComponents == 100

\* the cap _perform_svd puts on an adjusted n_components
RankCap == 50

Min(a, b) == IF a <= b THEN a ELSE b

\* no Svd object (self.svd = None)
NoSvd == [status |-> "none", n_components |-> 0, shape |-> <<0, 0>>, rank |-> 0]

\* an Svd object after __init__: nothing is factorized yet
BuiltSvd(n_components, shape) ==
    [status |-> "built", n_components |-> n_components, shape |-> shape, rank |-> 0]

\* scipy.sparse.linalg.svds(matrix, k): k singular triplets for
\* 1 <= k <= min(shape) - 1, ValueError for any other k
svds(shape, k) ==
    IF 1 <= k /\ k <= Min(shape[1], shape[2]) - 1 THEN Return(k) ELSE Raise("ValueError")

\* the adjustment that lets n_components equal to min_dim through
\* (if self.n_components > min_dim)
perform_svd_Above(obj) ==
    LET min_dim == Min(obj.shape[1], obj.shape[2])
    IN  IF min_dim <= 1 THEN [obj EXCEPT !.status = "rejected"]
        ELSE LET n_components == IF obj.n_components > min_dim
                                 THEN Min(min_dim - 1, RankCap)
                                 ELSE obj.n_components
                 usv == svds(obj.shape, n_components)
             IN  IF usv.raised
                 THEN [obj EXCEPT !.status = "svds_raised", !.n_components = n_components]
                 ELSE [obj EXCEPT !.status = "factorized", !.n_components = n_components,
                                  !.rank = usv.value]

\* Svd._perform_svd on the shape of the term-document matrix: the object
\* afterwards.  A smaller dimension of 1 or less raises ValueError before
\* svds is called; otherwise n_components is adjusted, stored and used
perform_svd(obj) ==
    LET min_dim == Min(obj.shape[1], obj.shape[2])
    IN  IF min_dim <= 1 THEN [obj EXCEPT !.status = "rejected"]
        ELSE LET n_components == IF obj.n_components >= min_dim
                                 THEN Min(min_dim - 1, RankCap)
                                 ELSE obj.n_components
                 usv == svds(obj.shape, n_components)
             IN  IF usv.raised
                 THEN [obj EXCEPT !.status = "svds_raised", !.n_components = n_components]
                 ELSE [obj EXCEPT !.status = "factorized", !.n_components = n_components,
                                  !.rank = usv.value]

\* what Svd.calculate_cosine_similarity_with_query can come to on n rows (the
\* arithmetic itself is outside the model): a fault, or one cosine per row
\* but the last
CosineOutcomes(n) ==
    {[fault |-> TRUE, cos |-> <<>>]} \cup
    {[fault |-> FALSE, cos |-> c] :
        c \in {[k \in 1..(n - 1) |-> Frac(k, n)], [k \in 1..(n - 1) |-> Frac(n - k, n)]}}

\* record.get('similarity', 0)
SimilarityOr0(r) == IF r.similarity = Absent THEN Frac(0, 1) ELSE r.similarity

\* Svd.get_recommendations: annotates the records of self.anime_data in place
\* (list.copy() copies the list, not the dicts) and sorts by similarity
Svd_get_recommendations(data, refs, cos) ==
    LET rows == {k \in 1..Len(refs) : k <= Len(cos)}
        touched == {refs[k] : k \in rows}
        \* a record listed twice keeps the annotation written last
        rowOf(i) == CHOOSE k \in rows : refs[k] = i /\ \A j \in rows : refs[j] = i => j <= k
        d2 == [i \in 1..Len(data) |->
                 IF i \in touched
                 THEN [data[i] EXCEPT !.similarity = cos[rowOf(i)],
                                      !.top_words = <<"This", " ", "is", " ", "similar">>]
                 ELSE data[i]]
    IN  [data |-> d2,
         value |-> SortedDesc(refs, [k \in 1..Len(refs) |-> SimilarityOr0(d2[refs[k]])])]

\* Svd.process_recs: every exception of factorization and scoring becomes [];
\* the set of what the call can come to
Svd_process_recs(data, svd) ==
    { IF outcome.fault THEN [data |-> data, value |-> <<>>]
      ELSE Svd_get_recommendations(data, svd.anime_data, outcome.cos)
      : outcome \in CosineOutcomes(Len(svd.anime_data)) }

----------------------------------------------------------------------------
(* processing/main.py: AnimeRecommender.get_recommendations                 *)

\* The operators below give the set of what a call can come to: each element
\* tells whether the call raised, the value returned (a list of references),
\* the catalog after it, and how the reduction stage ended for its caller.

\* the body of the try block: Svd(svd_input), then process_recs
Step2Body(data, svd_input) ==
    IF Len(svd_input) >= 2
    THEN LET svd_processor == Svd_init(<<svd_input>>)
         IN  IF svd_processor.raised
             THEN {[raised |-> TRUE, value |-> <<>>, data |-> data,
                    reduction |-> "raised", fallback |-> FALSE]}
             ELSE {[raised |-> FALSE, value |-> recs.value, data |-> recs.data,
                    reduction |-> "returned", fallback |-> FALSE]
                   : recs \in Svd_process_recs(data, svd_processor.value)}
    ELSE {[raised |-> FALSE, value |-> svd_input, data |-> data,
           reduction |-> "not_run", fallback |-> FALSE]}

\* except Exception: return sorted(svd_input, key=lambda x: x['similarity'],
\* reverse=True); the key raises KeyError on a record without the field
Step2Handler(b, svd_input) ==
    IF \E k \in 1..Len(svd_input) : b.data[svd_input[k]].similarity = Absent
    THEN b
    ELSE [b EXCEPT !.raised = FALSE, !.fallback = TRUE,
                   !.value = SortedDesc(svd_input,
                      [k \in 1..Len(svd_input) |-> b.data[svd_input[k]].similarity])]

\* the second step without its except clause
Step2_NoCatch(data, svd_input) == Step2Body(data, svd_input)

\* try: ... except Exception as e: ...
Step2(data, svd_input) ==
    { IF b.raised THEN Step2Handler(b, svd_input) ELSE b
      : b \in Step2Body(data, svd_input) }

\* the orchestrator that hands the whole list of the category stage on
\* (svd_input = genre_sim_output)
AfterCategory_WholeList(data, genre_sim_output) ==
    IF genre_sim_output = <<>>
    THEN {[raised |-> FALSE, value |-> <<>>, data |-> data, reduction |-> "not_run",
           fallback |-> FALSE, stages |-> <<"CATEGORY">>]}
    ELSE LET svd_input == genre_sim_output
         IN  {[raised |-> r.raised, value |-> r.value, data |-> r.data,
               reduction |-> r.reduction, fallback |-> r.fallback,
               stages |-> IF r.reduction = "not_run" THEN <<"CATEGORY">>
                          ELSE <<"CATEGORY", "CONTENT">>]
              : r \in Step2(data, svd_input)}

\* the orchestrator after the category stage returned genre_sim_output
AfterCategory(data, genre_sim_output) ==
    IF genre_sim_output = <<>>
    THEN {[raised |-> FALSE, value |-> <<>>, data |-> data, reduction |-> "not_run",
           fallback |-> FALSE, stages |-> <<"CATEGORY">>]}
    ELSE LET svd_input == SubSeq(genre_sim_output, 1, Len(genre_sim_output) - 1)
         IN  {[raised |-> r.raised, value |-> r.value, data |-> r.data,
               reduction |-> r.reduction, fallback |-> r.fallback,
               stages |-> IF r.reduction = "not_run" THEN <<"CATEGORY">>
                          ELSE <<"CATEGORY", "CONTENT">>]
              : r \in Step2(data, svd_input)}

\* AnimeRecommender.get_recommendations(anime_title)
get_recommendations(data, anime_title) ==
    LET g == get_similar_anime(data, anime_title)
    IN  {[raised |-> r.raised, value |-> r.value, data |-> r.data,
          reduction |-> r.reduction, fallback |-> r.fallback, stages |-> r.stages,
          genre_out |-> Deref(g.data, g.out)]
         : r \in AfterCategory(g.data, g.out)}

----------------------------------------------------------------------------
(* processing/reviewer_sentiment.py                                         *)

\* str(x) of an integer: a dict key distinct from the integer itself
Str(x) == <<"str", x>>

\* str(None)
StrNone == <<"None", 0>>

\* the elements of a finite set of integers as a list, ascending
RECURSIVE SetToSeq(_)
SetToSeq(S) ==
    IF S = {} THEN <<>>
    ELSE LET m == CHOOSE x \in S : \A y \in S : x <= y
         IN  <<m>> \o SetToSeq(S \ {m})

\* the reviewers of the offline tables
Reviewers == {501, 502}

\* anime_to_reviewer.json and reviewer_to_anime.json for a choice of who rated
\* which identifier 9 or more: the two tables are inverses of each other, and
\* an identifier or reviewer without ratings has no key
ReviewTables(rated) ==
    LET ids == {a \in DOMAIN rated : rated[a] # {}}
        revs == UNION {rated[a] : a \in DOMAIN rated}
    IN  [anime_to_reviewer |->
            [k \in {Str(a) : a \in ids} |-> SetToSeq(rated[k[2]])],
         reviewer_to_anime |->
            [k \in {Str(r) : r \in revs} |->
                SetToSeq({a \in DOMAIN rated : k[2] \in rated[a]})]]

\* index_to_anime_id.json: str(list position) -> identifier
IndexToAnimeId(data) == [k \in {Str(i) : i \in 1..Len(data)} |-> data[k[2]].anime_id]

\* the index_to_anime_id.json files a catalog comes with: every position has
\* a key, or the first position has none
IndexToAnimeIdChoices(data) ==
    { IndexToAnimeId(data),
      [k \in DOMAIN IndexToAnimeId(data) \ {Str(1)} |-> IndexToAnimeId(data)[k]] }

\* dict.get(key, default)
Get(d, key, default) == IF key \in DOMAIN d THEN d[key] ELSE default

\* the stage that answers the co-endorsed records in the order of their
\* identifiers ([by_id[i] for i in sorted(final_ids)])
get_highly_rated_anime_ById(data, tables, anime_title, intermediate_results) ==
    IF intermediate_results = <<>> THEN <<>>
    ELSE IF anime_title \notin DOMAIN tables.anime_to_index THEN <<>>
    ELSE LET query_anime_index == tables.anime_to_index[anime_title]
         IN  IF Str(query_anime_index) \notin DOMAIN tables.index_to_anime_id THEN <<>>
             ELSE
             LET query_anime_id == tables.index_to_anime_id[Str(query_anime_index)]
                 query_reviewers ==
                     Get(tables.anime_to_reviewer, Str(query_anime_id), <<>>)
                 keyOf(i) == IF data[i].Name \in DOMAIN tables.anime_to_index
                             THEN Str(tables.anime_to_index[data[i].Name]) ELSE StrNone
                 jaccard_set ==
                     {tables.index_to_anime_id[keyOf(i)] :
                        i \in {j \in Range(intermediate_results) :
                                 keyOf(j) \in DOMAIN tables.index_to_anime_id}}
                 highly_rated_anime ==
                     UNION {Range(Get(tables.reviewer_to_anime, Str(reviewer), <<>>)) :
                              reviewer \in Range(query_reviewers)}
                 final_ids == jaccard_set \cap highly_rated_anime
             IN  SetToSeq({i \in Range(intermediate_results) :
                             data[i].anime_id \in final_ids})

\* the stage that hands the list it was given back when the target has no
\* identifier (return intermediate_results)
get_highly_rated_anime_PassThrough(data, tables, anime_title, intermediate_results) ==
    IF intermediate_results = <<>> THEN <<>>
    ELSE IF anime_title \notin DOMAIN tables.anime_to_index THEN <<>>
    ELSE LET query_anime_index == tables.anime_to_index[anime_title]
         IN  IF Str(query_anime_index) \notin DOMAIN tables.index_to_anime_id
             THEN intermediate_results
             ELSE
             LET query_anime_id == tables.index_to_anime_id[Str(query_anime_index)]
                 query_reviewers ==
                     Get(tables.anime_to_reviewer, Str(query_anime_id), <<>>)
                 keyOf(i) == IF data[i].Name \in DOMAIN tables.anime_to_index
                             THEN Str(tables.anime_to_index[data[i].Name]) ELSE StrNone
                 jaccard_set ==
                     {tables.index_to_anime_id[keyOf(i)] :
                        i \in {j \in Range(intermediate_results) :
                                 keyOf(j) \in DOMAIN tables.index_to_anime_id}}
                 highly_rated_anime ==
                     UNION {Range(Get(tables.reviewer_to_anime, Str(reviewer), <<>>)) :
                              reviewer \in Range(query_reviewers)}
                 final_ids == jaccard_set \cap highly_rated_anime
                 keep == {k \in 1..Len(intermediate_results) :
                            data[intermediate_results[k]].anime_id \in final_ids}
                 pos == SetToSeq(keep)
             IN  [k \in 1..Len(pos) |-> intermediate_results[pos[k]]]

\* ReviewerSentiment.get_highly_rated_anime(anime_title, intermediate_results):
\* the sub-list of intermediate_results returned (references); `tables` are
\* the four lookups the object was constructed with
get_highly_rated_anime(data, tables, anime_title, intermediate_results) ==
    IF intermediate_results = <<>> THEN <<>>
    ELSE IF anime_title \notin DOMAIN tables.anime_to_index THEN <<>>
    ELSE LET query_anime_index == tables.anime_to_index[anime_title]
         IN  IF Str(query_anime_index) \notin DOMAIN tables.index_to_anime_id THEN <<>>
             ELSE
             LET query_anime_id == tables.index_to_anime_id[Str(query_anime_index)]
                 query_reviewers ==
                     Get(tables.anime_to_reviewer, Str(query_anime_id), <<>>)
                 keyOf(i) == IF data[i].Name \in DOMAIN tables.anime_to_index
                             THEN Str(tables.anime_to_index[data[i].Name]) ELSE StrNone
                 jaccard_set ==
                     {tables.index_to_anime_id[keyOf(i)] :
                        i \in {j \in Range(intermediate_results) :
                                 keyOf(j) \in DOMAIN tables.index_to_anime_id}}
                 highly_rated_anime ==
                     UNION {Range(Get(tables.reviewer_to_anime, Str(reviewer), <<>>)) :
                              reviewer \in Range(query_reviewers)}
                 final_ids == jaccard_set \cap highly_rated_anime
                 keep == {k \in 1..Len(intermediate_results) :
                            data[intermediate_results[k]].anime_id \in final_ids}
                 pos == SetToSeq(keep)
             IN  [k \in 1..Len(pos) |-> intermediate_results[pos[k]]]

----------------------------------------------------------------------------
(* processing/adhoc.py                                                      *)

\* the n_components default of AdHoc.__init__
AdHocComponents == 60

\* copy.deepcopy(anime_data): records of its own, equal in every field
DeepCopy(data) == [i \in 1..Len(data) |-> data[i]]

\* AdHoc._parse_episode_range: the table, and (0, inf) for any other string
EpisodeRangeTable ==
    [r \in {"1001-4000", "201-1000", "101-200", "61-100", "31-60", "21-30",
            "11-20", "1-10"} |->
       CASE r = "1001-4000" -> <<1001, 4000>>
         [] r = "201-1000" -> <<201, 1000>>
         [] r = "101-200" -> <<101, 200>>
         [] r = "61-100" -> <<61, 100>>
         [] r = "31-60" -> <<31, 60>>
         [] r = "21-30" -> <<21, 30>>
         [] r = "11-20" -> <<11, 20>>
         [] r = "1-10" -> <<1, 10>>]

parse_episode_range(range_str) ==
    IF range_str \in DOMAIN EpisodeRangeTable
    THEN [min_ep |-> EpisodeRangeTable[range_str][1],
          max_ep |-> EpisodeRangeTable[range_str][2], inf |-> FALSE]
    ELSE [min_ep |-> 0, max_ep |-> 0, inf |-> TRUE]

\* the loop over selected_ranges of _filter_by_episodes, from position k on
RECURSIVE EpisodeLoop(_, _, _, _)
EpisodeLoop(episodes, selected_ranges, k, best_match) ==
    IF k > Len(selected_ranges) THEN best_match
    ELSE LET r == parse_episode_range(selected_ranges[k])
         IN  IF r.inf
             THEN \* position = episodes / inf = 0.0, match_score = 0.0
                  EpisodeLoop(episodes, selected_ranges, k + 1,
                              IF 0 <= episodes THEN FracMax(best_match, Frac(0, 1))
                              ELSE best_match)
             ELSE IF r.min_ep <= episodes /\ episodes <= r.max_ep
             THEN LET range_size == r.max_ep - r.min_ep
                  IN  IF range_size = 0 THEN Frac(1, 1)
                      ELSE LET position == Frac(episodes - r.min_ep, range_size)
                               match_score ==
                                   FracSub(Frac(1, 1),
                                       FracMul(FracAbs(FracSub(position, Frac(1, 2))),
                                               Frac(2, 1)))
                           IN  EpisodeLoop(episodes, selected_ranges, k + 1,
                                           FracMax(best_match, match_score))
             ELSE EpisodeLoop(episodes, selected_ranges, k + 1, best_match)

\* the episode score that reads the Episodes field before it looks at the
\* selection
filter_by_episodes_ParseFirst(anime, selected_ranges) ==
    LET raw == IF anime.Episodes.present THEN anime.Episodes ELSE Number(0)
    IN  IF ~raw.numeric THEN Frac(0, 1)
        ELSE IF raw.n = 0 THEN Frac(0, 1)
        ELSE IF selected_ranges = <<>> THEN Frac(1, 1)
        ELSE EpisodeLoop(raw.n, selected_ranges, 1, Frac(0, 1))

\* AdHoc._filter_by_episodes
filter_by_episodes(anime, selected_ranges) ==
    IF selected_ranges = <<>> THEN Frac(1, 1)
    ELSE LET raw == IF anime.Episodes.present THEN anime.Episodes ELSE Number(0)
         IN  IF ~raw.numeric THEN Frac(0, 1)
             ELSE IF raw.n = 0 THEN Frac(0, 1)
             ELSE EpisodeLoop(raw.n, selected_ranges, 1, Frac(0, 1))

\* the values of a field split at the commas and left untrimmed
\* (field.split(','))
StrippedList_Untrimmed(field) == Split(field)

\* [v.strip() for v in field.split(',')]
StrippedList(field) == LET ps == Split(field) IN [k \in 1..Len(ps) |-> Strip(ps[k])]

\* sum(1 for v in selected if v in values) / len(selected)
MatchShare(selected, values) ==
    Frac(Cardinality({k \in 1..Len(selected) : selected[k] \in Range(values)}),
         Len(selected))

\* AdHoc._filter_by_genres
filter_by_genres(anime, selected_genres) ==
    IF selected_genres = <<>> THEN Frac(1, 1)
    ELSE LET anime_genres == StrippedList(anime.Genres)
         IN  IF anime_genres = <<>> THEN Frac(0, 1)
             ELSE MatchShare(selected_genres, anime_genres)

\* AdHoc._filter_by_studios
filter_by_studios(anime, selected_studios) ==
    IF selected_studios = <<>> THEN Frac(1, 1)
    ELSE LET anime_studios == StrippedList(anime.Studios)
         IN  IF anime_studios = <<>> THEN Frac(0, 1)
             ELSE MatchShare(selected_studios, anime_studios)

\* AdHoc._filter_by_rating
filter_by_rating(anime, selected_ratings) ==
    IF selected_ratings = <<>> THEN Frac(1, 1)
    ELSE IF anime.Rating = <<>> THEN Frac(0, 1)
    ELSE IF anime.Rating \in Range(selected_ratings) THEN Frac(1, 1) ELSE Frac(0, 1)

\* the pass that keeps a record as soon as one family matches (or instead of
\* and)
FilterLoopBody_AnyFamily(data, f, i, filtered_anime) ==
    LET episode_score == filter_by_episodes(data[i], f.episodes)
        genre_score == filter_by_genres(data[i], f.genres)
        studio_score == filter_by_studios(data[i], f.studios)
        rating_score == filter_by_rating(data[i], f.ratings)
        zero == Frac(0, 1)
    IN  IF \/ FracGT(episode_score, zero) \/ FracGT(genre_score, zero)
           \/ FracGT(studio_score, zero) \/ FracGT(rating_score, zero)
        THEN LET filter_score ==
                     FracMul(FracAdd(FracAdd(episode_score, genre_score),
                                     FracAdd(studio_score, rating_score)),
                             Frac(1, 4))
             IN  [data |-> [data EXCEPT ![i].filter_score = filter_score],
                  filtered_anime |-> Append(filtered_anime, i)]
        ELSE [data |-> data, filtered_anime |-> filtered_anime]

\* one pass of the first loop of AdHoc.get_recommendations, over position i of
\* the request's own copy of the catalog
FilterLoopBody(data, f, i, filtered_anime) ==
    LET episode_score == filter_by_episodes(data[i], f.episodes)
        genre_score == filter_by_genres(data[i], f.genres)
        studio_score == filter_by_studios(data[i], f.studios)
        rating_score == filter_by_rating(data[i], f.ratings)
        zero == Frac(0, 1)
    IN  IF /\ FracGT(episode_score, zero) /\ FracGT(genre_score, zero)
           /\ FracGT(studio_score, zero) /\ FracGT(rating_score, zero)
        THEN LET filter_score ==
                     FracMul(FracAdd(FracAdd(episode_score, genre_score),
                                     FracAdd(studio_score, rating_score)),
                             Frac(1, 4))
             IN  [data |-> [data EXCEPT ![i].filter_score = filter_score],
                  filtered_anime |-> Append(filtered_anime, i)]
        ELSE [data |-> data, filtered_anime |-> filtered_anime]

RECURSIVE FilterLoop(_, _, _, _)
FilterLoop(data, f, i, filtered_anime) ==
    IF i > Len(data) THEN [data |-> data, filtered_anime |-> filtered_anime]
    ELSE LET b == FilterLoopBody(data, f, i, filtered_anime)
         IN  FilterLoop(b.data, f, i + 1, b.filtered_anime)

\* sorted(filtered_anime, key=lambda x: x['filter_score'], reverse=True)
SortedByFilterScore(data, filtered_anime) ==
    SortedDesc(filtered_anime,
               [k \in 1..Len(filtered_anime) |-> data[filtered_anime[k]].filter_score])

\* the last loop without the floor: similarity becomes
\* 0.55 * similarity + 0.45 * filter_score
Blend_Weighted(data, recs) ==
    [i \in 1..Len(data) |->
        IF i \in Range(recs)
        THEN [data[i] EXCEPT !.similarity =
                FracAdd(FracMul(Frac(55, 100), data[i].similarity),
                        FracMul(Frac(45, 100), data[i].filter_score))]
        ELSE data[i]]

\* the last loop of AdHoc.get_recommendations: similarity becomes
\* max(0.55 * similarity + 0.45 * filter_score, similarity)
Blend(data, recs) ==
    [i \in 1..Len(data) |->
        IF i \in Range(recs)
        THEN [data[i] EXCEPT !.similarity =
                FracMax(FracAdd(FracMul(Frac(55, 100), data[i].similarity),
                                FracMul(Frac(45, 100), data[i].filter_score)),
                        data[i].similarity)]
        ELSE data[i]]

\* `genres or []`: a family given as None is the empty selection
OrEmpty(f, family) == IF family \in f.none THEN <<>> ELSE f[family]

\* `not description`: None and '' are both no description
NoDescription(f) == "description" \in f.none \/ f.description = <<>>

\* AdHoc(anime_data).get_recommendations(genres, episodes, studios, ratings,
\* description): the set of what the call can come to, `data` being the copy
\* the AdHoc object owns and `filtered` the list of the first pass
AdHoc_get_recommendations(anime_data_arg, f) ==
    LET own == DeepCopy(anime_data_arg)
        selected == [genres |-> OrEmpty(f, "genres"), episodes |-> OrEmpty(f, "episodes"),
                     studios |-> OrEmpty(f, "studios"), ratings |-> OrEmpty(f, "ratings")]
        l == FilterLoop(own, selected, 1, <<>>)
        filtered_anime == l.filtered_anime
        target_anime == [Synopsis |-> f.description]
    IN  IF NoDescription(f)
        THEN {[raised |-> FALSE, data |-> l.data, reduction |-> "not_run",
               filtered |-> filtered_anime,
               value |-> SortedByFilterScore(l.data, filtered_anime)]}
        ELSE LET svd == Svd_init(<<filtered_anime, target_anime, AdHocComponents>>)
             IN  IF svd.raised
                 THEN {[raised |-> TRUE, data |-> l.data, reduction |-> "raised",
                        filtered |-> filtered_anime, value |-> <<>>]}
                 ELSE { IF recs.value = <<>>
                        THEN [raised |-> FALSE, data |-> recs.data,
                              reduction |-> "returned", filtered |-> filtered_anime,
                              value |-> SortedByFilterScore(recs.data, filtered_anime)]
                        ELSE IF \E k \in 1..Len(recs.value) :
                                     recs.data[recs.value[k]].similarity = Absent
                        THEN \* anime['similarity'] raises KeyError
                             [raised |-> TRUE, data |-> recs.data,
                              reduction |-> "returned", filtered |-> filtered_anime,
                              value |-> <<>>]
                        ELSE LET d2 == Blend(recs.data, recs.value)
                             IN  [raised |-> FALSE, data |-> d2, reduction |-> "returned",
                                  filtered |-> filtered_anime,
                                  value |-> SortedDesc(recs.value,
                                     [k \in 1..Len(recs.value) |->
                                         d2[recs.value[k]].similarity])]
                        : recs \in Svd_process_recs(l.data, svd.value) }

----------------------------------------------------------------------------
(* The served process: app.py, and the stage drivers.                       *)

\* the titles a request may carry: every catalog name, one unknown name
Titles == {NameOf(i) : i \in 1..NItems} \cup {UnknownTitle}

NoFilters ==
    [genres |-> <<>>, episodes |-> <<>>, studios |-> <<>>, ratings |-> <<>>,
     description |-> <<>>, none |-> {}]

\* the bodies of POST /filtered_recommendations the served process is sent:
\* `none` names the keys sent as null
FilterRequests ==
    { NoFilters,
      [NoFilters EXCEPT !.none = {"genres", "episodes", "studios", "ratings",
                                  "description"}],
      [NoFilters EXCEPT !.genres = << <<"Action">>, <<"Drama">> >>],
      [NoFilters EXCEPT !.episodes = <<"1-10">>],
      [NoFilters EXCEPT !.genres = << <<"Drama">>, <<"Action">> >>,
                        !.studios = << <<"Madhouse">>, <<"Bones">> >>,
                        !.ratings = << <<"R">>, <<"G">> >>],
      [genres |-> << <<"Action">>, <<"Comedy">> >>, episodes |-> <<"1-10", "21-30">>,
       studios |-> << <<"Bones">> >>, ratings |-> << <<"PG-13">>, <<"R">> >>,
       description |-> <<>>, none |-> {}],
      [genres |-> << <<"Action">> >>, episodes |-> <<"1-10", "21-30">>,
       studios |-> << <<"Madhouse">> >>, ratings |-> << <<"PG-13">>, <<"R">> >>,
       description |-> <<"dark", " ", "fantasy">>, none |-> {}] }

NoRequest ==
    [kind |-> "none", title |-> <<>>, filters |-> NoFilters, raised |-> FALSE,
     result |-> <<>>, genre_out |-> <<>>, stages |-> <<>>, reduction |-> "not_run",
     fallback |-> FALSE, repeat |-> FALSE, filtered |-> <<>>]

Idle == [pc |-> "idle", title |-> <<>>, i |-> 0, similar_animes |-> <<>>,
         response |-> <<>>]

\* who rated what in the offline tables: by catalog position, from a few
\* reviewer sets
RatedChoices ==
    { [a \in {IdOf(i) : i \in 1..NItems} |-> c[a - 100]] :
        c \in [1..NItems -> {{}, {501}, Reviewers}] }

\* the process after start-up: the catalog is loaded, nothing is annotated
Loaded(catalog, rated, index_to_anime_id) ==
    /\ file_data = catalog
    /\ anime_data = catalog
    /\ app_anime_data = catalog
    /\ reviews = [anime_to_reviewer |-> ReviewTables(rated).anime_to_reviewer,
                  reviewer_to_anime |-> ReviewTables(rated).reviewer_to_anime,
                  anime_to_index |-> AnimeToIndex(catalog),
                  index_to_anime_id |-> index_to_anime_id]
    /\ last = NoRequest
    /\ firstResult = [t \in Titles |-> <<>>]
    /\ rq = [t \in Threads |-> Idle]
    /\ svd_object = NoSvd

Init ==
    \E catalog \in Catalogs :
        Loaded(catalog, [a \in {IdOf(i) : i \in 1..NItems} |-> {501}],
               IndexToAnimeId(catalog))

\* GET /recommendations?title=..., served alone from start to end: the
\* response is what json.dumps reads through the returned list
Serve(anime_title) ==
    /\ \A t \in Threads : rq[t].pc = "idle"
    /\ \E r \in get_recommendations(anime_data, anime_title) :
         /\ anime_data' = r.data
         /\ last' = [kind |-> "ref", title |-> anime_title, filters |-> NoFilters,
                     raised |-> r.raised,
                     result |-> IF r.raised THEN <<>> ELSE Deref(r.data, r.value),
                     genre_out |-> r.genre_out,
                     stages |-> r.stages, reduction |-> r.reduction,
                     fallback |-> r.fallback,
                     repeat |-> firstResult[anime_title] # <<>>, filtered |-> <<>>]
    /\ UNCHANGED <<file_data, app_anime_data, reviews, rq, svd_object>>

Recommendations(anime_title) ==
    /\ Serve(anime_title)
    /\ UNCHANGED firstResult

\* POST /filtered_recommendations: AdHoc(anime_data), its get_recommendations,
\* and the handler that answers [] with status 500 to any exception
FilteredRecommendations(f) ==
    /\ \A t \in Threads : rq[t].pc = "idle"
    /\ \E r \in AdHoc_get_recommendations(app_anime_data, f) :
         last' = [kind |-> "filter", title |-> <<>>, filters |-> f,
                  raised |-> r.raised,
                  result |-> IF r.raised THEN <<>> ELSE Deref(r.data, r.value),
                  genre_out |-> <<>>, stages |-> <<>>, reduction |-> r.reduction,
                  fallback |-> FALSE, repeat |-> FALSE,
                  filtered |-> Deref(r.data, r.filtered)]
    /\ UNCHANGED <<file_data, anime_data, app_anime_data, reviews, firstResult, rq, svd_object>>

Next ==
    \/ \E anime_title \in Titles : Recommendations(anime_title)
    \/ \E f \in FilterRequests : FilteredRecommendations(f)

Spec == Init /\ [][Next]_vars

----------------------------------------------------------------------------
(* Reference requests one after another, the first response to each name    *)
(* kept for comparison.                                                     *)

RecommendationsKept(anime_title) ==
    /\ Serve(anime_title)
    /\ firstResult' = IF firstResult[anime_title] = <<>>
                      THEN [firstResult EXCEPT ![anime_title] = <<last'.result>>]
                      ELSE firstResult

NextRepeat == \E anime_title \in Titles : RecommendationsKept(anime_title)

SpecRepeat == Init /\ [][NextRepeat]_vars

----------------------------------------------------------------------------
(* Two reference requests served by two threads of the one process: each    *)
(* pass of the category loop is a step.                                     *)

\* the request reaches get_similar_anime: an unknown name ends it with []
Begin(t, anime_title) ==
    /\ rq[t].pc = "idle"
    /\ rq' = [rq EXCEPT ![t] =
                IF Resolvable(anime_data, anime_title)
                THEN [pc |-> "loop", title |-> anime_title, i |-> 1,
                      similar_animes |-> <<>>, response |-> <<>>]
                ELSE [pc |-> "done", title |-> anime_title, i |-> 0,
                      similar_animes |-> <<>>, response |-> <<>>]]
    /\ UNCHANGED <<file_data, anime_data, app_anime_data, reviews, last, firstResult, svd_object>>

\* one pass of `for anime in self.anime_data`
LoopStep(t) ==
    /\ rq[t].pc = "loop"
    /\ rq[t].i <= Len(anime_data)
    /\ LET target_idx == AnimeToIndex(anime_data)[rq[t].title]
           b == GenreLoopBody(anime_data, rq[t].title,
                              GenreSet(anime_data[target_idx].Genres),
                              rq[t].i, rq[t].similar_animes)
       IN  /\ anime_data' = b.data
           /\ rq' = [rq EXCEPT ![t].i = @ + 1, ![t].similar_animes = b.similar_animes]
    /\ UNCHANGED <<file_data, app_anime_data, reviews, last, firstResult, svd_object>>

\* the loop is over: the target is appended, the orchestrator goes on to its
\* second step and the route serializes what it returns
Finish(t) ==
    /\ rq[t].pc = "loop"
    /\ rq[t].i > Len(anime_data)
    /\ LET target_idx == AnimeToIndex(anime_data)[rq[t].title]
           genre_sim_output == Append(rq[t].similar_animes, target_idx)
       IN  \E r \in AfterCategory(anime_data, genre_sim_output) :
              /\ anime_data' = r.data
              /\ rq' = [rq EXCEPT ![t].pc = "done",
                                  ![t].response = IF r.raised THEN <<>>
                                                  ELSE Deref(r.data, r.value)]
    /\ UNCHANGED <<file_data, app_anime_data, reviews, last, firstResult, svd_object>>

NextThreads ==
    \/ \E t \in Threads, anime_title \in Titles : Begin(t, anime_title)
    \/ \E t \in Threads : LoopStep(t)
    \/ \E t \in Threads : Finish(t)

SpecThreads == Init /\ [][NextThreads]_vars

----------------------------------------------------------------------------
(* The category stage followed by the collaborative stage, as the driver of *)
(* reviewer_sentiment.py runs them.                                         *)

InitStages ==
    \E catalog \in Catalogs, rated \in RatedChoices :
        /\ \A i \in 1..NItems : catalog[i].Score = 5 + i
        /\ \E index_to_anime_id \in IndexToAnimeIdChoices(catalog) :
              Loaded(catalog, rated, index_to_anime_id)

\* similar_animes = genre_sim.get_similar_anime(test_anime), then
\* reviewer_sentiment.get_highly_rated_anime(test_anime, similar_animes)
HighlyRated(anime_title) ==
    /\ last.kind = "none"
    /\ LET g == get_similar_anime(anime_data, anime_title)
           c == get_highly_rated_anime(g.data, reviews, anime_title, g.out)
       IN  /\ anime_data' = g.data
           /\ last' = [kind |-> "collab", title |-> anime_title, filters |-> NoFilters,
                       raised |-> FALSE, result |-> Deref(g.data, c),
                       genre_out |-> Deref(g.data, g.out),
                       stages |-> <<"CATEGORY", "COLLABORATIVE">>,
                       reduction |-> "not_run", fallback |-> FALSE, repeat |-> FALSE,
                       filtered |-> <<>>]
    /\ UNCHANGED <<file_data, app_anime_data, reviews, firstResult, rq, svd_object>>

NextStages == \E anime_title \in Titles : HighlyRated(anime_title)

SpecStages == InitStages /\ [][NextStages]_vars

----------------------------------------------------------------------------
(* The score blend of AdHoc.get_recommendations on the records the          *)
(* reduction stage hands back: each carries a latent similarity and the     *)
(* filter_score of the first pass.                                          *)

\* cosine similarities in [-1, 1] and filter scores in (0, 1]
LatentSimilarities == {Frac(0 - 1, 1), Frac(0 - 1, 2), Frac(0, 1), Frac(1, 2), Frac(1, 1)}

FilterScores == {Frac(1, 4), Frac(35, 36), Frac(1, 1)}

InitBlend ==
    \E sim \in [1..NItems -> LatentSimilarities], fs \in [1..NItems -> FilterScores] :
        /\ file_data = [i \in 1..NItems |-> Record(i, <<>>, 1)]
        /\ app_anime_data = file_data
        /\ anime_data = [i \in 1..NItems |->
                            [file_data[i] EXCEPT !.similarity = sim[i],
                                                 !.filter_score = fs[i]]]
        /\ reviews = [anime_to_reviewer |-> <<>>, reviewer_to_anime |-> <<>>,
                      anime_to_index |-> AnimeToIndex(file_data),
                      index_to_anime_id |-> IndexToAnimeId(file_data)]
        /\ last = NoRequest
        /\ firstResult = [t \in Titles |-> <<>>]
        /\ rq = [t \in Threads |-> Idle]
        /\ svd_object = NoSvd

\* the loop over svd_recommendations and the sorted return
BlendScores ==
    /\ last.kind = "none"
    /\ LET svd_recommendations == [k \in 1..NItems |-> k]
           d2 == Blend(anime_data, svd_recommendations)
       IN  /\ anime_data' = d2
           /\ last' = [NoRequest EXCEPT
                         !.kind = "blend",
                         !.reduction = "returned",
                         !.filtered = Deref(anime_data, svd_recommendations),
                         !.result = Deref(d2, SortedDesc(svd_recommendations,
                                        [k \in 1..NItems |-> d2[k].similarity]))]
    /\ UNCHANGED <<file_data, app_anime_data, reviews, firstResult, rq, svd_object>>

NextBlend == BlendScores

SpecBlend == InitBlend /\ [][NextBlend]_vars

----------------------------------------------------------------------------
(* Svd._perform_svd on an Svd object, for the ranks a caller asks for and   *)
(* the shapes a term-document matrix takes.                                 *)

\* the n_components an Svd is built with: the default, AdHoc's, small ones
\* and the ones around the cap
RequestedRanks ==
    {1, 2, 3, RankCap - 1, RankCap, RankCap + 1, AdHocComponents, SvdComponents}

\* the numbers of rows (documents) and of columns (vocabulary terms) of the
\* matrix fit_transform_synopses returns
MatrixDims == {0, 1, 2, 3, 4, RankCap, RankCap + 1, RankCap + 2, RankCap + 3}

InitSvd ==
    \E k \in RequestedRanks, rows \in MatrixDims, cols \in MatrixDims :
        /\ file_data = [i \in 1..NItems |-> Record(i, <<>>, 1)]
        /\ anime_data = file_data
        /\ app_anime_data = file_data
        /\ reviews = [anime_to_reviewer |-> <<>>, reviewer_to_anime |-> <<>>,
                      anime_to_index |-> AnimeToIndex(file_data),
                      index_to_anime_id |-> IndexToAnimeId(file_data)]
        /\ last = NoRequest
        /\ firstResult = [t \in Titles |-> <<>>]
        /\ rq = [t \in Threads |-> Idle]
        /\ svd_object = BuiltSvd(k, <<rows, cols>>)

\* reduced_vectors = self._perform_svd()
PerformSvd ==
    /\ svd_object.status = "built"
    /\ svd_object' = perform_svd(svd_object)
    /\ UNCHANGED <<file_data, anime_data, app_anime_data, reviews, last, firstResult, rq>>

NextSvd == PerformSvd

SpecSvd == InitSvd /\ [][NextSvd]_vars

----------------------------------------------------------------------------
(* The claims.                                                              *)

\* the position of the record a resolvable title names
TargetOf(title) == CHOOSE i \in 1..NItems : file_data[i].Name = title

RefServed == last.kind = "ref"

\* C1: a reference request for a name that is not a key of the name-to-index
\* lookup gets an empty list from the category stage and an empty list from
\* the entry point, nothing is raised and no stage after the category stage
\* runs.
C1_UnknownNameFailsClosed ==
    (RefServed /\ ~Resolvable(file_data, last.title)) =>
        /\ last.genre_out = <<>>
        /\ ~last.raised
        /\ last.result = <<>>
        /\ last.stages = <<"CATEGORY">>
        /\ last.reduction = "not_run"

\* an unknown name was served by a process that has served others before
C1_Witness ==
    /\ RefServed
    /\ last.title = UnknownTitle
    /\ anime_data # file_data

C3_CatalogAsLoaded ==
    /\ anime_data = file_data
    /\ app_anime_data = file_data

\* C4: a reference request that overlaps another one answers what it answers
\* when it is served alone.
C4_OverlapAnswersAsAlone ==
    \A t \in Threads :
        rq[t].pc = "done" =>
            \E r \in get_recommendations(file_data, rq[t].title) :
                rq[t].response = Deref(r.data, r.value)

\* C5: a reference request for a name answers the same records, in the same
\* order and with the same similarity values, as the first request for that
\* name did, whatever reference requests were served in between.
C5_SameAnswerAsFirst ==
    (RefServed /\ firstResult[last.title] # <<>>) =>
        last.result = firstResult[last.title][1]

\* a name was served again with two or more records, after a request for
\* another name left another similarity on one of them
C5_Witness ==
    /\ RefServed
    /\ last.repeat
    /\ Len(last.result) >= 2
    /\ \E t \in Titles \ {last.title} :
          /\ firstResult[t] # <<>>
          /\ \E j \in 1..Len(firstResult[t][1]), k \in 1..Len(last.result) :
                /\ firstResult[t][1][j].Name = last.result[k].Name
                /\ firstResult[t][1][j].similarity # last.result[k].similarity

\* C6: when the content stage runs, the collaborative stage has run between
\* the category stage and it.
C6_CollaborativeBeforeContent ==
    RefServed =>
        \A k \in 1..Len(last.stages) :
            last.stages[k] = "CONTENT" =>
                \E j \in 1..(k - 1) : last.stages[j] = "COLLABORATIVE"

\* C7: when the content stage yields nothing and the orchestrator falls back,
\* the answer is sorted by descending similarity and, among equal
\* similarities, by descending community score.
C7_FallbackTiesByScore ==
    (RefServed /\ last.fallback) =>
        \A k \in 1..(Len(last.result) - 1) :
            \/ FracGT(last.result[k].similarity, last.result[k + 1].similarity)
            \/ /\ last.result[k].similarity = last.result[k + 1].similarity
               /\ last.result[k].Score >= last.result[k + 1].Score

\* C8: the reference entry point ends with a list and raises nothing,
\* whatever the name and however the later stages end.
C8_EntryPointNeverRaises ==
    RefServed => ~last.raised

\* the reduction stage raised inside the entry point, which answered a list
C8_Witness ==
    /\ RefServed
    /\ last.reduction = "raised"
    /\ ~last.raised
    /\ last.result # <<>>

\* C9: no exception of the reduction stage (building Svd and its TFIDF model,
\* then process_recs) reaches the caller of the stage.
C9_ReductionNeverRaises ==
    last.reduction # "raised"

\* C10: given the list the category stage returned, the collaborative stage
\* returns exactly the pool records whose identifier is co-endorsed by the
\* target's reviewers, the target's own identifier removed.
C10_CollaborativeDropsTarget ==
    (last.kind = "collab" /\ Resolvable(file_data, last.title)) =>
        LET target == file_data[TargetOf(last.title)]
            rated == [a \in {file_data[i].anime_id : i \in 1..NItems} |->
                        Range(Get(reviews.anime_to_reviewer, Str(a), <<>>))]
            endorsed == {a \in DOMAIN rated : rated[a] \cap rated[target.anime_id] # {}}
            poolIds == {last.genre_out[k].anime_id : k \in 1..Len(last.genre_out)}
            wanted == (endorsed \cap poolIds) \ {target.anime_id}
        IN  /\ \A k \in 1..Len(last.result) : last.result[k].Name # last.title
            /\ {last.result[k].anime_id : k \in 1..Len(last.result)} = wanted

CollabServed == last.kind = "collab"

\* the place of a record in the list the collaborative stage was given
PlaceInPool(rec) ==
    CHOOSE j \in 1..Len(last.genre_out) : last.genre_out[j].Name = rec.Name

\* C11: every record the collaborative stage returns is a record of the list
\* it was given, equal to it in every field (the similarity of the category
\* stage included), and the records keep the relative order of that list.
C11_CollaborativeSubList ==
    CollabServed =>
        /\ \A k \in 1..Len(last.result) :
              \E j \in 1..Len(last.genre_out) : last.genre_out[j] = last.result[k]
        /\ \A k1, k2 \in 1..Len(last.result) :
              k1 < k2 => PlaceInPool(last.result[k1]) < PlaceInPool(last.result[k2])

\* the stage kept two or more records, one of them annotated, and dropped one
C11_Witness ==
    /\ CollabServed
    /\ Len(last.result) >= 2
    /\ Len(last.result) < Len(last.genre_out)
    /\ \E k \in 1..Len(last.result) : last.result[k].similarity # Absent

\* the target has an index and an identifier in the lookups of the stage
TargetHasId ==
    /\ last.title \in DOMAIN reviews.anime_to_index
    /\ Str(reviews.anime_to_index[last.title]) \in DOMAIN reviews.index_to_anime_id

\* the reviewers the item-to-reviewer table lists for the target
TargetReviewers ==
    Get(reviews.anime_to_reviewer,
        Str(reviews.index_to_anime_id[Str(reviews.anime_to_index[last.title])]),
        <<>>)

\* C12: the collaborative stage returns the empty list and raises nothing
\* when the list it is given is empty, when the target has no index or no
\* identifier in the lookups, or when the item-to-reviewer table lists no
\* reviewer for the target.
C12_CollaborativeEmptyCases ==
    (/\ CollabServed
     /\ \/ last.genre_out = <<>>
        \/ ~TargetHasId
        \/ TargetReviewers = <<>>) =>
        /\ last.result = <<>>
        /\ ~last.raised

\* the stage was given a list with a rated record in it for a target whose
\* position has no key in the index-to-identifier lookup
C12_Witness ==
    /\ CollabServed
    /\ last.title \in DOMAIN reviews.anime_to_index
    /\ ~TargetHasId
    /\ Len(last.genre_out) >= 2
    /\ \E k \in 1..Len(last.genre_out) :
          /\ last.genre_out[k].Name # last.title
          /\ Str(last.genre_out[k].anime_id) \in DOMAIN reviews.anime_to_reviewer

FilterServed == last.kind = "filter"

\* the selections the first pass of the last ad-hoc request ran with
SelectedOf(family) == OrEmpty(last.filters, family)

\* the record of the catalog at position i is in the list of the first pass
Retained(i) ==
    \E k \in 1..Len(last.filtered) : last.filtered[k].Name = app_anime_data[i].Name

\* C13: with the one bucket "1-10" selected and nothing else, a record with
\* exactly 1 or exactly 10 episodes is retained by the filter.
C13_BoundaryRetained ==
    (/\ FilterServed
     /\ SelectedOf("episodes") = <<"1-10">>
     /\ SelectedOf("genres") = <<>>
     /\ SelectedOf("studios") = <<>>
     /\ SelectedOf("ratings") = <<>>) =>
        \A i \in 1..NItems :
            (/\ app_anime_data[i].Episodes.present
             /\ app_anime_data[i].Episodes.numeric
             /\ app_anime_data[i].Episodes.n \in {1, 10}) => Retained(i)

\* the four family scores of the catalog record at position i under the
\* selections of the last ad-hoc request: episodes, genres, studios, ratings
FamilyScores(i) ==
    << filter_by_episodes(app_anime_data[i], SelectedOf("episodes")),
       filter_by_genres(app_anime_data[i], SelectedOf("genres")),
       filter_by_studios(app_anime_data[i], SelectedOf("studios")),
       filter_by_rating(app_anime_data[i], SelectedOf("ratings")) >>

\* the families in which the record at position i scores above 0
Matching(i) == {k \in 1..4 : FracGT(FamilyScores(i)[k], Frac(0, 1))}

\* the record of the first pass's list that the catalog record at i became
FilteredRecord(i) ==
    last.filtered[CHOOSE k \in 1..Len(last.filtered) :
                      last.filtered[k].Name = app_anime_data[i].Name]

\* C14: a catalog record is in the filtered list exactly when its episode,
\* genre, studio and rating scores are all above 0, and its filter_score is
\* then the mean of the four.
C14_FilteredIffAllFamilies ==
    FilterServed =>
        \A i \in 1..NItems :
            /\ Retained(i) <=> Matching(i) = 1..4
            /\ Retained(i) =>
                 LET fs == FamilyScores(i)
                     total == FracAdd(FracAdd(fs[1], fs[2]), FracAdd(fs[3], fs[4]))
                 IN  FilteredRecord(i).filter_score = Frac(total[1], 4 * total[2])

\* every family had a selection, a record was kept with a mean below 1 and a
\* record was dropped for one family alone
C14_Witness ==
    /\ FilterServed
    /\ \A family \in {"episodes", "genres", "studios", "ratings"} :
          SelectedOf(family) # <<>>
    /\ \E i \in 1..NItems :
          /\ Retained(i)
          /\ FracGT(Frac(1, 1), FilteredRecord(i).filter_score)
    /\ \E i \in 1..NItems :
          /\ ~Retained(i)
          /\ Cardinality(Matching(i)) = 3

\* C15: an ad-hoc request with no selection in any family (empty or None) and
\* no description answers every catalog record, each with filter_score 1.0,
\* whatever its Episodes, Genres, Studios and Rating fields hold.
C15_NoFiltersKeepsAll ==
    (/\ FilterServed
     /\ \A family \in {"episodes", "genres", "studios", "ratings"} :
           SelectedOf(family) = <<>>
     /\ NoDescription(last.filters)) =>
        /\ ~last.raised
        /\ Len(last.result) = NItems
        /\ \A i \in 1..NItems :
              \E k \in 1..Len(last.result) :
                 /\ last.result[k].Name = app_anime_data[i].Name
                 /\ last.result[k].filter_score = Frac(1, 1)

\* every key of the request was None and the catalog holds a record without
\* Episodes, one with a non-numeric and one with a zero count, and records
\* with empty Genres, Studios and Rating
C15_Witness ==
    /\ FilterServed
    /\ last.filters.none = {"genres", "episodes", "studios", "ratings", "description"}
    /\ Len(last.result) = NItems
    /\ \E i \in 1..NItems : ~app_anime_data[i].Episodes.present
    /\ \E i \in 1..NItems : app_anime_data[i].Episodes = NotANumber
    /\ \E i \in 1..NItems : app_anime_data[i].Episodes = Number(0)
    /\ \E i \in 1..NItems :
          /\ app_anime_data[i].Genres = <<>>
          /\ app_anime_data[i].Studios = <<>>
          /\ app_anime_data[i].Rating = <<>>

\* C16: an ad-hoc request with a description whose reduction stage fails
\* (while it is set up or later) or yields nothing is answered, without an
\* error, with the filtered records sorted by descending filter_score.
C16_DescriptionFallsBack ==
    (/\ FilterServed
     /\ ~NoDescription(last.filters)
     /\ last.reduction = "raised") =>
        /\ ~last.raised
        /\ Len(last.result) = Len(last.filtered)
        /\ {last.result[k].Name : k \in 1..Len(last.result)} =
               {last.filtered[k].Name : k \in 1..Len(last.filtered)}
        /\ \A k \in 1..Len(last.result) - 1 :
              FracGE(last.result[k].filter_score, last.result[k + 1].filter_score)

\* the record the reduction stage handed back that became the answered
\* record rec
BeforeBlend(rec) ==
    last.filtered[CHOOSE k \in 1..Len(last.filtered) :
                      last.filtered[k].Name = rec.Name]

\* 0.55 * similarity + 0.45 * filter_score of a record, as numerator and
\* denominator
WeightedOf(rec) ==
    << 55 * rec.similarity[1] * rec.filter_score[2]
         + 45 * rec.filter_score[1] * rec.similarity[2],
       100 * rec.similarity[2] * rec.filter_score[2] >>

PresentCount(selected, field) ==
    Cardinality({k \in 1..Len(selected) : selected[k] \in GenreSet(field)})

\* a family score is the share count / len(selected), within [0, 1], 0 with
\* no selected value present and 1 with all of them
ShareOf(score, selected, field) ==
    /\ score[1] * Len(selected) = PresentCount(selected, field) * score[2]
    /\ FracGE(score, Frac(0, 1)) /\ FracGE(Frac(1, 1), score)
    /\ score = Frac(0, 1) <=> PresentCount(selected, field) = 0
    /\ score = Frac(1, 1) <=> PresentCount(selected, field) = Len(selected)

\* C18: with a selection in the genre family, and likewise in the studio
\* family, the family score of a record is the number of selected values
\* present among its comma-split, trimmed values over the number of selected
\* values: in [0, 1], 0 exactly when none is present, 1 exactly when all are.
C18_GenreStudioShare ==
    FilterServed =>
        \A i \in 1..NItems :
            /\ SelectedOf("genres") # <<>> =>
                 ShareOf(FamilyScores(i)[2], SelectedOf("genres"),
                         app_anime_data[i].Genres)
            /\ SelectedOf("studios") # <<>> =>
                 ShareOf(FamilyScores(i)[3], SelectedOf("studios"),
                         app_anime_data[i].Studios)

\* two genres and two studios were selected; the catalog has a record with a
\* genre score strictly between 0 and 1 and records with studio scores 0, 1
\* and in between, one of them through a value that needed trimming
C18_Witness ==
    /\ FilterServed
    /\ Len(SelectedOf("genres")) = 2
    /\ Len(SelectedOf("studios")) = 2
    /\ \E i \in 1..NItems : FamilyScores(i)[2] = Frac(1, 2)
    /\ \E i \in 1..NItems : FamilyScores(i)[2] = Frac(0, 1)
    /\ \E i \in 1..NItems :
          /\ FamilyScores(i)[2] = Frac(1, 1)
          /\ \E p \in Range(Split(app_anime_data[i].Genres)) : Strip(p) # p
    /\ \E i \in 1..NItems : FamilyScores(i)[3] = Frac(1, 2)
    /\ \E i \in 1..NItems : FamilyScores(i)[3] = Frac(0, 1)
    /\ \E i \in 1..NItems : FamilyScores(i)[3] = Frac(1, 1)

\* the tags a Genres string names: none for the empty string
TagsOf(genres) == GenreSet(genres) \ {<<>>}

\* C19: the category stage's similarity of a record to the reference lies in
\* [0, 1] and is 1 exactly when the two tag sets are identical and non-empty:
\* two records with empty tag strings do not score 1.
C19_OneIffSameNonEmptyTags ==
    (RefServed /\ Resolvable(file_data, last.title)) =>
        LET A == TagsOf(file_data[TargetOf(last.title)].Genres)
        IN  /\ \A k \in 1..Len(last.genre_out) :
                 last.genre_out[k].Name # last.title =>
                    /\ FracGE(last.genre_out[k].similarity, Frac(0, 1))
                    /\ FracGE(Frac(1, 1), last.genre_out[k].similarity)
            /\ \A i \in 1..NItems \ {TargetOf(last.title)} :
                 LET B == TagsOf(file_data[i].Genres)
                     scoredOne ==
                         \E k \in 1..Len(last.genre_out) :
                            /\ last.genre_out[k].Name = file_data[i].Name
                            /\ last.genre_out[k].similarity = Frac(1, 1)
                 IN  scoredOne <=> (A = B /\ A # {})

\* C20: for a resolvable name, the list the category stage returns holds no
\* record of the reference itself (the target is handed over apart from it)
\* and only records whose similarity reached the threshold.
C20_PoolWithoutReference ==
    (RefServed /\ Resolvable(file_data, last.title)) =>
        \A k \in 1..Len(last.genre_out) :
            /\ last.genre_out[k].Name # last.title
            /\ last.genre_out[k].similarity # Absent
            /\ FracGE(last.genre_out[k].similarity, Threshold)

\* the smaller dimension of the matrix of the Svd object
SmallerDim == Min(svd_object.shape[1], svd_object.shape[2])

\* C21: _perform_svd on an object built with n_components k >= 1: with a
\* smaller matrix dimension m of at least 2 the matrix is factorized with
\* rank k when k <= m - 1 and with min(m - 1, 50) otherwise, so with a rank
\* from 1 to m - 1; with m of 1 or less it is rejected before factorization.
C21_RankClamp ==
    [][PerformSvd =>
         LET k == svd_object.n_components
             m == SmallerDim
         IN  IF m >= 2
             THEN /\ svd_object'.status = "factorized"
                  /\ svd_object'.rank = IF k <= m - 1 THEN k ELSE Min(m - 1, 50)
                  /\ 1 <= svd_object'.rank /\ svd_object'.rank <= m - 1
             ELSE /\ svd_object'.status = "rejected"
                  /\ svd_object'.rank = 0]_vars

\* a matrix was factorized with a rank capped at 50, below both the rank
\* asked for and m - 1
C21_Witness ==
    /\ svd_object.status = "factorized"
    /\ svd_object.rank = 50
    /\ SmallerDim - 1 > 50

\* the names of the candidates of the last reference request: the list of
\* the category stage without its last element
PoolNames ==
    {last.genre_out[j].Name : j \in 1..Len(last.genre_out) - 1}

\* C22: for a resolvable name, whichever way the orchestrator ends (fewer
\* than two candidates, reduction stage returned, reduction stage failed and
\* the fallback answered), no returned record is the reference and every
\* returned record is a candidate of the category stage.
C22_ResultWithinPool ==
    (RefServed /\ Resolvable(file_data, last.title)) =>
        \A k \in 1..Len(last.result) :
            /\ last.result[k].Name # last.title
            /\ last.result[k].Name \in PoolNames

\* the fallback answered two or more candidates, not all equally similar,
\* for a reference that carries a similarity of its own from an earlier
\* request
C22_Witness ==
    /\ RefServed
    /\ Resolvable(file_data, last.title)
    /\ last.fallback
    /\ Len(last.result) >= 2
    /\ anime_data[TargetOf(last.title)].similarity # Absent
    /\ last.result[1].similarity # last.result[Len(last.result)].similarity

====
